---- MODULE Spec2Model ----
(***************************************************************************)
(* Model of the share-resolution flow of src/shared/lib/share.ts:          *)
(* the Web-Share strategy (share / shareImageToInstagram), the Direct      *)
(* clipboard + deep-link strategy (shareImageToInstagramDirect) and the    *)
(* pre-fetch helper (prepareShareImageFile), together with the browser     *)
(* calls they make (fetch, canShare, share, clipboard.write,               *)
(* location.assign, window.open).                                          *)
(*                                                                         *)
(* Strings the code transforms (file names, content types) are sequences   *)
(* of tokens, so that trim / toLowerCase / split / endsWith are computed.  *)
(* A call that may throw yields a completion: Return(v) or Throw(e).       *)
(***************************************************************************)
EXTENDS Integers, Sequences, FiniteSets, TLC

VARIABLES
  env,              \* the ambient globals (window, navigator and its members)
  pc,               \* position of the invocation in flight
  call,             \* the function invoked and its arguments
  deepLink,         \* shareImageToInstagramDirect: local deepLink
  file,             \* local file / prepared
  clipboardOk,      \* shareImageToInstagramDirect: local clipboardOk
  clipboardStatus,  \* shareImageToInstagramDirect: local clipboardStatus
  fetchedVia,       \* shareImageToInstagramDirect: local fetchedVia
  outcome,          \* the promise the invocation returned to its caller
  log,              \* browser calls made by the invocation, in order
  calls,            \* invocations started so far
  self,             \* the handler whose code is running
  handler,          \* its page-level state (onShare / the prefetch effect)
  parked,           \* the other handlers, suspended at an await
  page              \* Home: preparedFile and the effect's cancelled flag

vars == <<env, pc, call, deepLink, file, clipboardOk, clipboardStatus,
          fetchedVia, outcome, log, calls, self, handler, parked, page>>

\* What the functions of share.ts never touch.
pageVars == <<self, handler, parked, page>>

\* Number of invocations the caller makes one after the other.
MaxCalls == 2

----------------------------------------------------------------------------
\* Values

Undefined == "undefined"

None == [some |-> FALSE]
Some(v) == [some |-> TRUE, v |-> v]

Return(v) == [t |-> "return", v |-> v]
Throw(e) == [t |-> "throw", e |-> e]

\* Values a rejected promise or a throwing call can carry: what `typeof`
\* says of the value and its `name` property.
ErrorValues ==
  { [typeof |-> "object", name |-> "AbortError"],
    [typeof |-> "object", name |-> "NotAllowedError"],
    [typeof |-> "object", name |-> Undefined],
    [typeof |-> "string", name |-> Undefined],
    [typeof |-> "undefined", name |-> Undefined] }

FetchError == [typeof |-> "object", name |-> "Error"]

Reasons == {"not_in_browser", "not_supported", "clipboard_not_supported",
            "fetch_failed", "user_cancelled", "unknown"}

Methods == {"web_share", "deep_link", "deep_link_clipboard"}

ClipboardStatuses == {"copied", "failed", "not_supported", "skipped"}

----------------------------------------------------------------------------
\* Strings as token sequences

Lower(tok) ==
  CASE tok = "IMAGE/PNG" -> "image/png"
    [] tok = ".PNG" -> ".png"
    [] tok = ".JPEG" -> ".jpeg"
    [] OTHER -> tok

toLowerCase(s) == [i \in 1..Len(s) |-> Lower(s[i])]

RECURSIVE trimStart(_)
trimStart(s) ==
  IF s # <<>> /\ Head(s) = " " THEN trimStart(Tail(s)) ELSE s

RECURSIVE trimEnd(_)
trimEnd(s) ==
  IF s # <<>> /\ s[Len(s)] = " " THEN trimEnd(SubSeq(s, 1, Len(s) - 1)) ELSE s

trim(s) == trimEnd(trimStart(s))

\* s.split(";")[0]
RECURSIVE splitFirst(_)
splitFirst(s) ==
  IF s = <<>> \/ Head(s) = ";" THEN <<>> ELSE <<Head(s)>> \o splitFirst(Tail(s))

endsWith(s, tok) == s # <<>> /\ s[Len(s)] = tok

ImageTypeTokens == {"image/png", "image/jpeg", "image/webp", "image/gif"}

\* s.startsWith("image/")
startsWithImage(s) == s # <<>> /\ Head(s) \in ImageTypeTokens

extensionFromContentType(contentType) ==
  LET type == trim(splitFirst(toLowerCase(contentType))) IN
  CASE type = <<"image/png">> -> <<".png">>
    [] type = <<"image/jpeg">> -> <<".jpg">>
    [] type = <<"image/webp">> -> <<".webp">>
    [] type = <<"image/gif">> -> <<".gif">>
    [] OTHER -> <<>>

\* Bug: `filename || ...` without the trim.
fileFromBlobUntrimmed(blob, filename, via) ==
  LET contentType == blob.type
      inferredExtension == extensionFromContentType(contentType)
      given == IF filename.some THEN filename.v ELSE <<>>
      safeName == IF given # <<>> THEN given
                  ELSE <<"shared-image">> \o inferredExtension
  IN [name |-> safeName,
      type |-> IF contentType # <<>> THEN contentType
               ELSE <<"application/octet-stream">>,
      fetchedVia |-> via]

fileFromBlob(blob, filename, via) ==
  LET contentType == blob.type
      inferredExtension == extensionFromContentType(contentType)
      trimmed == IF filename.some THEN trim(filename.v) ELSE <<>>
      safeName == IF trimmed # <<>> THEN trimmed
                  ELSE <<"shared-image">> \o inferredExtension
  IN [name |-> safeName,
      type |-> IF contentType # <<>> THEN contentType
               ELSE <<"application/octet-stream">>,
      fetchedVia |-> via]

inferImageMime(f) ==
  LET name == toLowerCase(f.name) IN
  IF f.type # <<>> /\ startsWithImage(f.type) THEN Some(f.type)
  ELSE IF endsWith(name, ".png") THEN Some(<<"image/png">>)
  ELSE IF endsWith(name, ".jpg") \/ endsWith(name, ".jpeg")
    THEN Some(<<"image/jpeg">>)
  ELSE IF endsWith(name, ".webp") THEN Some(<<"image/webp">>)
  ELSE IF endsWith(name, ".gif") THEN Some(<<"image/gif">>)
  ELSE None

\* Bug: any thrown object counts as a cancellation.
isAbortErrorAnyObject(error) == error.typeof = "object"

isAbortError(error) ==
  IF error.typeof = "object" THEN error.name = "AbortError" ELSE FALSE

----------------------------------------------------------------------------
\* Inputs

Filenames ==
  { None, Some(<<>>), Some(<<" ">>),
    Some(<<" ", "social-sharing", ".png", " ">>),
    Some(<<"photo", ".JPEG">>) }

ContentTypes ==
  { <<>>, <<"image/png">>, <<"IMAGE/PNG">>,
    <<"image/jpeg", ";", " ", "charset=utf-8">>, <<"text/html">>,
    <<"image/webp">>, <<" ", "image/gif", " ">> }

NoFile == [name |-> <<>>, type |-> <<>>, fetchedVia |-> Undefined]

\* Files a caller may hand to the Direct strategy.
PreparedFiles ==
  { [name |-> <<"social-sharing", ".png">>, type |-> <<"image/png">>,
     fetchedVia |-> "next_image_optimizer"],
    [name |-> <<"photo", ".JPEG">>, type |-> <<"application/octet-stream">>,
     fetchedVia |-> Undefined] }

Targets == {Undefined, "story_camera", "app"}

\* The ambient globals the code probes.
Environments ==
  { e \in [hasWindow : BOOLEAN, hasNavigator : BOOLEAN, hasShare : BOOLEAN,
           hasCanShare : BOOLEAN, hasClipboardWrite : BOOLEAN,
           hasClipboardItem : BOOLEAN] :
      /\ ~e.hasNavigator => ~e.hasShare /\ ~e.hasCanShare /\ ~e.hasClipboardWrite
      /\ ~e.hasWindow => ~e.hasClipboardItem }

----------------------------------------------------------------------------
\* Outcomes of the browser calls

\* fetch(url, {mode: "cors"}) followed by response.blob()
FetchOutcomes ==
  { Throw([typeof |-> "object", name |-> "TypeError"]) }
  \cup { Return([ok |-> FALSE, body |-> Return([type |-> <<"text/html">>])]) }
  \cup { Return([ok |-> TRUE, body |-> Return([type |-> ct])]) :
           ct \in ContentTypes }
  \cup { Return([ok |-> TRUE,
                 body |-> Throw([typeof |-> "object", name |-> "TypeError"])]) }

\* navigator.canShare?.({files: [file]})
CanShareOutcomes ==
  { Return("true"), Return("false"), Return(Undefined),
    Throw([typeof |-> "object", name |-> "TypeError"]) }

\* navigator.share({files, title, text})
ShareOutcomes == { Return(Undefined) } \cup { Throw(e) : e \in ErrorValues }

\* clipboard.write([item]), location.assign(url), window.open(url, "_blank")
VoidOutcomes ==
  { Return(Undefined),
    Throw([typeof |-> "object", name |-> "NotAllowedError"]),
    Throw([typeof |-> "string", name |-> Undefined]) }

\* A browser call: the API, its argument and how the call completed.
Call(api, arg, r) == [api |-> api, arg |-> arg, r |-> r]

Pending == [state |-> "pending"]
Fulfilled(v) == [state |-> "fulfilled", value |-> v]
Rejected(e) == [state |-> "rejected", error |-> e]

\* The promise of an async function whose body completed with c.
Settle(c) == IF c.t = "return" THEN Fulfilled(c.v) ELSE Rejected(c.e)

Failure(reason) ==
  [ok |-> FALSE, provider |-> "instagram", reason |-> reason]

FailureWith(reason, error) ==
  [ok |-> FALSE, provider |-> "instagram", reason |-> reason, error |-> error]

----------------------------------------------------------------------------
\* The code, block by block

inBrowser(e) == e.hasWindow /\ e.hasNavigator

\* Bug: the capability guard is dropped.
hasNativeShareAlways(e) == TRUE

\* "share" in navigator && typeof navigator.share === "function"
hasNativeShare(e) == e.hasShare

\* Bug: the ClipboardItem constructor is not probed.
isClipboardWriteSupportedNoItem(e) == e.hasClipboardWrite

isClipboardWriteSupported(e) == e.hasClipboardWrite /\ e.hasClipboardItem

\* The options each caller passes to fileFromUrl.
allowNextImageOptimizerFallback(op) == op \in {"direct", "prepare"}

\* Bug: response.ok is not looked at.
tryFetchBlobIgnoringStatus(r) ==
  IF r.t = "throw" THEN Return(None)
  ELSE IF r.v.body.t = "throw" THEN Return(None)
  ELSE Return(Some(r.v.body.v))

tryFetchBlob(r) ==
  IF r.t = "throw" THEN Return(None)
  ELSE IF ~r.v.ok THEN Return(None)
  ELSE IF r.v.body.t = "throw" THEN Return(None)
  ELSE Return(Some(r.v.body.v))

\* fileFromUrl after `await tryFetchBlob(imageUrl)`.
fileFromUrlDirect(direct, filename, allow, e) ==
  IF direct.some
    THEN [step |-> "done", c |-> Return(fileFromBlob(direct.v, filename, "direct"))]
  ELSE IF allow /\ e.hasWindow
    THEN [step |-> "fallback", c |-> Return(NoFile)]
  ELSE [step |-> "done", c |-> Throw(FetchError)]

\* fileFromUrl after `await tryFetchBlob(buildNextImageOptimizerUrl(imageUrl))`.
fileFromUrlFallback(viaNext, filename) ==
  IF viaNext.some
    THEN Return(fileFromBlob(viaNext.v, filename, "next_image_optimizer"))
  ELSE Throw(FetchError)

\* shareImageViaWebShare up to its first await.
webShareGuards(e, payload) ==
  IF ~inBrowser(e) THEN Some(Failure("not_in_browser"))
  ELSE IF ~hasNativeShare(e) THEN Some(Failure("not_supported"))
  ELSE IF payload.kind # "image" THEN Some(Failure("unknown"))
  ELSE None

\* Bug: a failed fetch is tried again.
webShareAfterFetchRetry(c) ==
  IF c.t = "throw"
    THEN [pc |-> "fetch_direct", file |-> NoFile, outcome |-> Pending]
  ELSE [pc |-> "can_share", file |-> c.v, outcome |-> Pending]

\* shareImageViaWebShare: try { file = await fileFromUrl(...) } catch.
webShareAfterFetch(c) ==
  IF c.t = "throw"
    THEN [pc |-> "done", file |-> NoFile,
          outcome |-> Fulfilled(FailureWith("fetch_failed", c.e))]
  ELSE [pc |-> "can_share", file |-> c.v, outcome |-> Pending]

\* Bug: `!canShare` instead of `canShare === false`.
webShareCanShareFalsy(e, r) ==
  IF ~e.hasCanShare THEN [calls |-> <<>>, result |-> None]
  ELSE [calls |-> <<Call("canShare", <<>>, r)>>,
        result |-> IF r.t = "throw" THEN None
                   ELSE IF r.v \in {"false", Undefined}
                     THEN Some(Failure("not_supported"))
                   ELSE None]

\* shareImageViaWebShare: the canShare block; r is what canShare does if
\* it is called.
webShareCanShare(e, r) ==
  IF ~e.hasCanShare THEN [calls |-> <<>>, result |-> None]
  ELSE [calls |-> <<Call("canShare", <<>>, r)>>,
        result |-> IF r.t = "throw" THEN None
                   ELSE IF r.v = "false" THEN Some(Failure("not_supported"))
                   ELSE None]

\* shareImageViaWebShare: try { await navigator.share(...) } catch.
webShareResult(r) ==
  IF r.t = "return"
    THEN [ok |-> TRUE, provider |-> "instagram", method |-> "web_share"]
  ELSE IF isAbortError(r.e) THEN FailureWith("user_cancelled", r.e)
  ELSE FailureWith("unknown", r.e)

\* Bug: options.file is ignored and the image is always fetched.
directEntryIgnoringFile(e, options) ==
  LET target == IF options.target = Undefined THEN "story_camera"
                ELSE options.target
      link == IF target = "story_camera" THEN "instagram://story-camera"
              ELSE "instagram://app"
      base == [pc |-> "open_deep_link", deepLink |-> link, file |-> NoFile,
               clipboardStatus |-> "skipped", outcome |-> Pending]
  IN
  IF ~inBrowser(e)
    THEN [base EXCEPT !.pc = "done", !.deepLink = Undefined,
                      !.outcome = Fulfilled(Failure("not_in_browser"))]
  ELSE IF options.skipClipboard THEN base
  ELSE IF ~isClipboardWriteSupported(e)
    THEN [base EXCEPT !.clipboardStatus = "not_supported"]
  ELSE [base EXCEPT !.clipboardStatus = "failed", !.pc = "fetch_direct"]

\* shareImageToInstagramDirect up to its first await or to the deep link.
directEntry(e, options) ==
  LET target == IF options.target = Undefined THEN "story_camera"
                ELSE options.target
      link == IF target = "story_camera" THEN "instagram://story-camera"
              ELSE "instagram://app"
      base == [pc |-> "open_deep_link", deepLink |-> link, file |-> NoFile,
               clipboardStatus |-> "skipped", outcome |-> Pending]
  IN
  IF ~inBrowser(e)
    THEN [base EXCEPT !.pc = "done", !.deepLink = Undefined,
                      !.outcome = Fulfilled(Failure("not_in_browser"))]
  ELSE IF options.skipClipboard THEN base
  ELSE IF ~isClipboardWriteSupported(e)
    THEN [base EXCEPT !.clipboardStatus = "not_supported"]
  ELSE IF options.file.some
    THEN [base EXCEPT !.clipboardStatus = "failed", !.pc = "clipboard_write",
                      !.file = options.file.v]
  ELSE [base EXCEPT !.clipboardStatus = "failed", !.pc = "fetch_direct"]

\* Bug: the catch reports the fetch failure instead of going on.
directAfterPrepareFatal(c) ==
  IF c.t = "throw"
    THEN [pc |-> "done", file |-> NoFile, clipboardOk |-> FALSE,
          clipboardStatus |-> "failed",
          outcome |-> Fulfilled(FailureWith("fetch_failed", c.e))]
  ELSE [pc |-> "clipboard_write", file |-> c.v, clipboardOk |-> FALSE,
        clipboardStatus |-> "failed", outcome |-> Pending]

\* shareImageToInstagramDirect: `options.file ?? (await fileFromUrl(...))`
\* and the catch around it.
directAfterPrepare(c) ==
  IF c.t = "throw"
    THEN [pc |-> "open_deep_link", file |-> NoFile, clipboardOk |-> FALSE,
          clipboardStatus |-> "failed", outcome |-> Pending]
  ELSE [pc |-> "clipboard_write", file |-> c.v, clipboardOk |-> FALSE,
        clipboardStatus |-> "failed", outcome |-> Pending]

\* w is what clipboard.write does if it is called.
tryWriteImageToClipboard(f, e, w) ==
  IF ~e.hasClipboardWrite THEN [calls |-> <<>>, c |-> Return(FALSE)]
  ELSE IF ~e.hasClipboardItem THEN [calls |-> <<>>, c |-> Return(FALSE)]
  ELSE LET inferred == inferImageMime(f)
           mime == IF inferred.some THEN inferred.v ELSE <<"image/png">>
       IN [calls |-> <<Call("clipboard.write", mime, w)>>,
           c |-> IF w.t = "return" THEN Return(TRUE) ELSE Return(FALSE)]

\* Bug: the status is set to "copied" whatever the write returned.
directAfterWriteAlwaysCopied(c, prepared) ==
  IF c.t = "throw"
    THEN [clipboardOk |-> FALSE, clipboardStatus |-> "failed",
          fetchedVia |-> Undefined]
  ELSE [clipboardOk |-> c.v, clipboardStatus |-> "copied",
        fetchedVia |-> prepared.fetchedVia]

\* shareImageToInstagramDirect: after `await tryWriteImageToClipboard` and
\* the catch around it.
directAfterWrite(c, prepared) ==
  IF c.t = "throw"
    THEN [clipboardOk |-> FALSE, clipboardStatus |-> "failed",
          fetchedVia |-> Undefined]
  ELSE [clipboardOk |-> c.v,
        clipboardStatus |-> IF c.v THEN "copied" ELSE "failed",
        fetchedVia |-> prepared.fetchedVia]

\* Bug: window.open is attempted although location.assign returned.
tryOpenDeepLinkBoth(url, a, o) ==
  [calls |-> <<Call("location.assign", <<url>>, a),
               Call("window.open", <<url>>, o)>>,
   c |-> IF a.t = "return" \/ o.t = "return" THEN Return(TRUE)
         ELSE Return(FALSE)]

\* Bug: the inner try/catch around window.open is missing.
tryOpenDeepLinkUncaught(url, a, o) ==
  IF a.t = "return"
    THEN [calls |-> <<Call("location.assign", <<url>>, a)>>,
          c |-> Return(TRUE)]
  ELSE [calls |-> <<Call("location.assign", <<url>>, a),
                    Call("window.open", <<url>>, o)>>,
        c |-> IF o.t = "return" THEN Return(TRUE) ELSE o]

\* a, o are what location.assign and window.open do if they are called.
tryOpenDeepLink(url, a, o) ==
  IF a.t = "return"
    THEN [calls |-> <<Call("location.assign", <<url>>, a)>>,
          c |-> Return(TRUE)]
  ELSE [calls |-> <<Call("location.assign", <<url>>, a),
                    Call("window.open", <<url>>, o)>>,
        c |-> IF o.t = "return" THEN Return(TRUE) ELSE Return(FALSE)]

\* Bug: a copied image counts as success although the deep link failed.
directResultClipboardSuffices(opened, ok, status, via) ==
  IF opened.t = "throw" THEN opened
  ELSE IF ~opened.v /\ ~ok THEN Return(Failure("not_supported"))
  ELSE Return([ok |-> TRUE, provider |-> "instagram",
               method |-> IF ok THEN "deep_link_clipboard" ELSE "deep_link",
               details |-> [clipboard |-> status, deepLinkOpened |-> opened.v,
                            fetchedVia |-> via]])

\* shareImageToInstagramDirect from `const deepLinkOpened = ...` on.
directResult(opened, ok, status, via) ==
  IF opened.t = "throw" THEN opened
  ELSE IF ~opened.v THEN Return(Failure("not_supported"))
  ELSE Return([ok |-> TRUE, provider |-> "instagram",
               method |-> IF ok THEN "deep_link_clipboard" ELSE "deep_link",
               details |-> [clipboard |-> status, deepLinkOpened |-> opened.v,
                            fetchedVia |-> via]])

----------------------------------------------------------------------------
\* The state machine

\* The handlers of the page: the prefetch effect and two clicks on
\* "Share (Instagram direct)".
Handlers == {"effect", "click1", "click2"}

Clicks == {"click1", "click2"}

NoHandler ==
  [kind |-> "none", stage |-> "none", alerts |-> <<>>, invoked |-> <<>>,
   passed |-> None, direct |-> Pending, directCalls |-> 0]

\* The activation of a handler that has not run.
IdleFrame ==
  [pc |-> "idle", call |-> [op |-> "none"], deepLink |-> Undefined,
   file |-> NoFile, clipboardOk |-> FALSE, clipboardStatus |-> "skipped",
   fetchedVia |-> Undefined, outcome |-> Pending, log |-> <<>>,
   handler |-> NoHandler]

NoPage == [preparedFile |-> None, cancelled |-> FALSE]

Init ==
  /\ env \in Environments
  /\ pc = "idle"
  /\ call = [op |-> "none"]
  /\ deepLink = Undefined
  /\ file = NoFile
  /\ clipboardOk = FALSE
  /\ clipboardStatus = "skipped"
  /\ fetchedVia = Undefined
  /\ outcome = Pending
  /\ log = <<>>
  /\ calls = 0
  /\ self = "main"
  /\ handler = NoHandler
  /\ parked = [t \in Handlers |-> IdleFrame]
  /\ page = NoPage

\* The caller starts an invocation (the first one, or one after it has
\* received the outcome of the previous one).
CanStart == pc = "idle" /\ calls < MaxCalls

\* provider(options.payload) with providers.instagram = shareImageViaWebShare
WebShareStart(payload) ==
  LET g == webShareGuards(env, payload) IN
  /\ CanStart
  /\ calls' = calls + 1
  /\ call' = [op |-> "web_share", filename |-> payload.filename,
              kind |-> payload.kind]
  /\ log' = <<>>
  /\ deepLink' = Undefined
  /\ file' = NoFile
  /\ clipboardOk' = FALSE
  /\ clipboardStatus' = "skipped"
  /\ fetchedVia' = Undefined
  /\ IF g.some THEN pc' = "done" /\ outcome' = Fulfilled(g.v)
     ELSE pc' = "fetch_direct" /\ outcome' = Pending
  /\ UNCHANGED env
  /\ UNCHANGED pageVars

share ==
  \E kind \in {"image", "other"}, filename \in Filenames :
    WebShareStart([kind |-> kind, filename |-> filename])

shareImageToInstagram ==
  \E filename \in Filenames :
    WebShareStart([kind |-> "image", filename |-> filename])

shareImageToInstagramDirect ==
  \E filename \in Filenames, f \in {None} \cup {Some(x) : x \in PreparedFiles},
     target \in Targets, skipClipboard \in BOOLEAN :
    LET options == [filename |-> filename, file |-> f, target |-> target,
                    skipClipboard |-> skipClipboard]
        n == directEntry(env, options)
    IN
    /\ CanStart
    /\ calls' = calls + 1
    /\ call' = [op |-> "direct", filename |-> filename, file |-> f,
                target |-> target, skipClipboard |-> skipClipboard]
    /\ log' = <<>>
    /\ pc' = n.pc
    /\ deepLink' = n.deepLink
    /\ file' = n.file
    /\ clipboardOk' = FALSE
    /\ clipboardStatus' = n.clipboardStatus
    /\ fetchedVia' = Undefined
    /\ outcome' = n.outcome
    /\ UNCHANGED env
    /\ UNCHANGED pageVars

prepareShareImageFile ==
  \E filename \in Filenames :
    /\ CanStart
    /\ calls' = calls + 1
    /\ call' = [op |-> "prepare", filename |-> filename]
    /\ log' = <<>>
    /\ pc' = "fetch_direct"
    /\ deepLink' = Undefined
    /\ file' = NoFile
    /\ clipboardOk' = FALSE
    /\ clipboardStatus' = "skipped"
    /\ fetchedVia' = Undefined
    /\ outcome' = Pending
    /\ UNCHANGED env
    /\ UNCHANGED pageVars

\* `await fileFromUrl(...)` completes with c in the caller.
FileFromUrlReturns(c) ==
  CASE call.op = "prepare" ->
         /\ pc' = "done"
         /\ outcome' = Settle(c)
         /\ UNCHANGED <<file, clipboardOk, clipboardStatus>>
    [] call.op = "web_share" ->
         LET n == webShareAfterFetch(c) IN
         /\ pc' = n.pc
         /\ file' = n.file
         /\ outcome' = n.outcome
         /\ UNCHANGED <<clipboardOk, clipboardStatus>>
    [] call.op = "direct" ->
         LET n == directAfterPrepare(c) IN
         /\ pc' = n.pc
         /\ file' = n.file
         /\ clipboardOk' = n.clipboardOk
         /\ clipboardStatus' = n.clipboardStatus
         /\ outcome' = n.outcome

\* fileFromUrl: the direct fetch of imageUrl.
FetchDirect ==
  /\ pc = "fetch_direct"
  /\ \E r \in FetchOutcomes :
       LET direct == tryFetchBlob(r) IN
       /\ log' = Append(log, Call("fetch", <<"direct">>, r))
       /\ IF direct.t = "throw" THEN FileFromUrlReturns(direct)
          ELSE LET st == fileFromUrlDirect(direct.v, call.filename,
                           allowNextImageOptimizerFallback(call.op), env)
               IN IF st.step = "fallback"
                    THEN /\ pc' = "fetch_optimizer"
                         /\ UNCHANGED <<file, clipboardOk, clipboardStatus,
                                        outcome>>
                  ELSE FileFromUrlReturns(st.c)
  /\ UNCHANGED <<env, call, deepLink, fetchedVia, calls>>
  /\ UNCHANGED pageVars

\* fileFromUrl: the fetch of the same-origin optimizer URL.
FetchOptimizer ==
  /\ pc = "fetch_optimizer"
  /\ \E r \in FetchOutcomes :
       LET viaNext == tryFetchBlob(r) IN
       /\ log' = Append(log, Call("fetch", <<"next_image_optimizer">>, r))
       /\ IF viaNext.t = "throw" THEN FileFromUrlReturns(viaNext)
          ELSE FileFromUrlReturns(fileFromUrlFallback(viaNext.v, call.filename))
  /\ UNCHANGED <<env, call, deepLink, fetchedVia, calls>>
  /\ UNCHANGED pageVars

\* shareImageViaWebShare: the canShare probe.
CanShare ==
  /\ pc = "can_share"
  /\ \E r \in CanShareOutcomes :
       LET n == webShareCanShare(env, r) IN
       /\ log' = log \o n.calls
       /\ IF n.result.some
            THEN pc' = "done" /\ outcome' = Fulfilled(n.result.v)
          ELSE pc' = "share" /\ UNCHANGED outcome
  /\ UNCHANGED <<env, call, deepLink, file, clipboardOk, clipboardStatus,
                 fetchedVia, calls>>
  /\ UNCHANGED pageVars

\* shareImageViaWebShare: navigator.share settles.
NativeShare ==
  /\ pc = "share"
  /\ \E r \in ShareOutcomes :
       /\ log' = Append(log, Call("share", file.name, r))
       /\ outcome' = Fulfilled(webShareResult(r))
  /\ pc' = "done"
  /\ UNCHANGED <<env, call, deepLink, file, clipboardOk, clipboardStatus,
                 fetchedVia, calls>>
  /\ UNCHANGED pageVars

\* shareImageToInstagramDirect: the clipboard write settles.
ClipboardWrite ==
  /\ pc = "clipboard_write"
  /\ \E w \in VoidOutcomes :
       LET r == tryWriteImageToClipboard(file, env, w)
           n == directAfterWrite(r.c, file)
       IN
       /\ log' = log \o r.calls
       /\ clipboardOk' = n.clipboardOk
       /\ clipboardStatus' = n.clipboardStatus
       /\ fetchedVia' = n.fetchedVia
  /\ pc' = "open_deep_link"
  /\ UNCHANGED <<env, call, deepLink, file, outcome, calls>>
  /\ UNCHANGED pageVars

\* shareImageToInstagramDirect: open the deep link and return.
OpenDeepLink ==
  /\ pc = "open_deep_link"
  /\ \E a \in VoidOutcomes, o \in VoidOutcomes :
       LET r == tryOpenDeepLink(deepLink, a, o) IN
       /\ log' = log \o r.calls
       /\ outcome' = Settle(directResult(r.c, clipboardOk, clipboardStatus,
                                         fetchedVia))
  /\ pc' = "done"
  /\ UNCHANGED <<env, call, deepLink, file, clipboardOk, clipboardStatus,
                 fetchedVia, calls>>
  /\ UNCHANGED pageVars

\* The caller receives the settled promise; the invocation's locals end.
Settled ==
  /\ pc = "done"
  /\ pc' = "idle"
  /\ call' = [op |-> "none"]
  /\ deepLink' = Undefined
  /\ file' = NoFile
  /\ clipboardOk' = FALSE
  /\ clipboardStatus' = "skipped"
  /\ fetchedVia' = Undefined
  /\ outcome' = Pending
  /\ log' = <<>>
  /\ UNCHANGED <<env, calls>>
  /\ UNCHANGED pageVars

Next ==
  \/ share
  \/ shareImageToInstagram
  \/ shareImageToInstagramDirect
  \/ prepareShareImageFile
  \/ FetchDirect
  \/ FetchOptimizer
  \/ CanShare
  \/ NativeShare
  \/ ClipboardWrite
  \/ OpenDeepLink
  \/ Settled

Spec == Init /\ [][Next]_vars

----------------------------------------------------------------------------
\* The page (app/page.tsx): the prefetch effect and the onShare handler

PageFilename == Some(<<"social-sharing", ".png">>)

\* The options onShare passes to shareImageToInstagramDirect.
onShareOptions(preparedFile) ==
  [filename |-> PageFilename, file |-> preparedFile, target |-> Undefined,
   skipClipboard |-> FALSE]

\* onShare after `await shareImageToInstagramDirect(...)`: the first alert
\* and whether shareImageToInstagram is invoked.
onShareAfterDirect(result) ==
  [alerts |-> IF result.ok /\ "details" \in DOMAIN result
                   /\ result.details.clipboard = "not_supported"
                THEN <<"clipboard_unsupported_will_try_share_sheet">>
              ELSE <<>>,
   fallback |-> ~result.ok /\ result.reason = "not_supported"]

\* onShare from `if (result.ok && result.method === ...)` on.
onShareAlerts(result) ==
  IF result.ok /\ result.method = "deep_link_clipboard"
    THEN <<"image_copied">>
  ELSE IF ~result.ok /\ result.reason # "user_cancelled"
    THEN IF result.reason = "not_supported" THEN <<"sharing_not_supported">>
         ELSE <<"share_failed">>
  ELSE <<>>

\* Bug: the file is stored without looking at cancelled.
effectAfterPrefetchIgnoringCancelled(settled, cancelled, preparedFile) ==
  IF settled.state = "fulfilled"
    THEN [preparedFile |-> Some(settled.value), stage |-> "finished"]
  ELSE [preparedFile |-> preparedFile, stage |-> "finished"]

\* The effect's async body after `await prepareShareImageFile(...)`: the
\* try, the cancelled test and the empty catch.
effectAfterPrefetch(settled, cancelled, preparedFile) ==
  IF settled.state = "fulfilled"
    THEN [preparedFile |-> IF ~cancelled THEN Some(settled.value)
                           ELSE preparedFile,
          stage |-> "finished"]
  ELSE [preparedFile |-> preparedFile, stage |-> "finished"]

\* The locals of the activation that is running.
Frame ==
  [pc |-> pc, call |-> call, deepLink |-> deepLink, file |-> file,
   clipboardOk |-> clipboardOk, clipboardStatus |-> clipboardStatus,
   fetchedVia |-> fetchedVia, outcome |-> outcome, log |-> log,
   handler |-> handler]

FrameOf(t) == IF t = self THEN Frame ELSE parked[t]

\* Bug: clipboardOk, clipboardStatus and fetchedVia are declared at module
\* level, so every invocation reads what the last one wrote.
activationSharedLocals(saved, running) ==
  [saved EXCEPT !.clipboardOk = running.clipboardOk,
                !.clipboardStatus = running.clipboardStatus,
                !.fetchedVia = running.fetchedVia]

\* What a resumed activation sees: its own locals (they are declared
\* inside the async functions), whatever ran in between.
activation(saved, running) == saved

\* The event loop resumes handler t; the running one stays suspended at
\* its await.
Resume(t) ==
  /\ t # self
  /\ self \in Handlers
  /\ LET f == activation(parked[t], Frame) IN
     /\ pc' = f.pc
     /\ call' = f.call
     /\ deepLink' = f.deepLink
     /\ file' = f.file
     /\ clipboardOk' = f.clipboardOk
     /\ clipboardStatus' = f.clipboardStatus
     /\ fetchedVia' = f.fetchedVia
     /\ outcome' = f.outcome
     /\ log' = f.log
     /\ handler' = f.handler
  /\ self' = t
  /\ parked' = [parked EXCEPT ![self] = Frame, ![t] = IdleFrame]
  /\ UNCHANGED <<env, calls, page>>

\* A click on "Share (Instagram direct)": onShare up to its first await.
onShare ==
  /\ self \in Clicks
  /\ handler.stage \in {"none", "finished"}
  /\ LET options == onShareOptions(page.preparedFile)
         n == directEntry(env, options)
     IN
     /\ call' = [op |-> "direct", filename |-> options.filename,
                 file |-> options.file, target |-> options.target,
                 skipClipboard |-> options.skipClipboard]
     /\ pc' = n.pc
     /\ deepLink' = n.deepLink
     /\ file' = n.file
     /\ clipboardOk' = FALSE
     /\ clipboardStatus' = n.clipboardStatus
     /\ fetchedVia' = Undefined
     /\ outcome' = n.outcome
     /\ log' = <<>>
     /\ handler' = [NoHandler EXCEPT
                      !.kind = "onShare", !.stage = "direct",
                      !.invoked = <<"shareImageToInstagramDirect">>,
                      !.passed = options.file]
  /\ UNCHANGED <<env, calls, self, parked, page>>

\* onShare resumes with the result of shareImageToInstagramDirect.
onShareDirectSettled ==
  /\ handler.kind = "onShare"
  /\ handler.stage = "direct"
  /\ pc = "done"
  /\ IF outcome.state = "rejected"
       THEN /\ handler' = [handler EXCEPT !.stage = "raised",
                                          !.direct = outcome,
                                          !.directCalls = Len(log)]
            /\ UNCHANGED <<pc, call, deepLink, file, clipboardOk,
                           clipboardStatus, fetchedVia, outcome>>
     ELSE LET d == onShareAfterDirect(outcome.value)
              h == [handler EXCEPT !.direct = outcome,
                                   !.directCalls = Len(log),
                                   !.alerts = @ \o d.alerts]
          IN
          IF d.fallback
            THEN LET payload == [kind |-> "image", filename |-> PageFilename]
                     g == webShareGuards(env, payload)
                 IN
                 /\ handler' = [h EXCEPT
                                  !.stage = "web_share",
                                  !.invoked = Append(@, "shareImageToInstagram")]
                 /\ call' = [op |-> "web_share", filename |-> payload.filename,
                             kind |-> payload.kind]
                 /\ deepLink' = Undefined
                 /\ file' = NoFile
                 /\ clipboardOk' = FALSE
                 /\ clipboardStatus' = "skipped"
                 /\ fetchedVia' = Undefined
                 /\ IF g.some THEN pc' = "done" /\ outcome' = Fulfilled(g.v)
                    ELSE pc' = "fetch_direct" /\ outcome' = Pending
          ELSE /\ handler' = [h EXCEPT
                                !.stage = "finished",
                                !.alerts = @ \o onShareAlerts(outcome.value)]
               /\ UNCHANGED <<pc, call, deepLink, file, clipboardOk,
                              clipboardStatus, fetchedVia, outcome>>
  /\ UNCHANGED <<env, log, calls, self, parked, page>>

\* onShare resumes with the result of shareImageToInstagram.
onShareWebShareSettled ==
  /\ handler.kind = "onShare"
  /\ handler.stage = "web_share"
  /\ pc = "done"
  /\ handler' =
       IF outcome.state = "rejected" THEN [handler EXCEPT !.stage = "raised"]
       ELSE [handler EXCEPT !.stage = "finished",
                            !.alerts = @ \o onShareAlerts(outcome.value)]
  /\ UNCHANGED <<env, pc, call, deepLink, file, clipboardOk, clipboardStatus,
                 fetchedVia, outcome, log, calls, self, parked, page>>

\* The effect runs after mount: its async body up to the await.
useEffect ==
  /\ self = "effect"
  /\ handler.stage = "none"
  /\ ~page.cancelled
  /\ call' = [op |-> "prepare", filename |-> PageFilename]
  /\ pc' = "fetch_direct"
  /\ handler' = [NoHandler EXCEPT
                   !.kind = "effect", !.stage = "prefetch",
                   !.invoked = <<"prepareShareImageFile">>]
  /\ UNCHANGED <<env, deepLink, file, clipboardOk, clipboardStatus,
                 fetchedVia, outcome, log, calls, self, parked, page>>

\* The effect's async body resumes with the settled prefetch.
effectPrefetchSettled ==
  /\ handler.kind = "effect"
  /\ handler.stage = "prefetch"
  /\ pc = "done"
  /\ LET n == effectAfterPrefetch(outcome, page.cancelled, page.preparedFile)
     IN /\ page' = [page EXCEPT !.preparedFile = n.preparedFile]
        /\ handler' = [handler EXCEPT !.stage = n.stage]
  /\ UNCHANGED <<env, pc, call, deepLink, file, clipboardOk, clipboardStatus,
                 fetchedVia, outcome, log, calls, self, parked>>

\* The effect's cleanup: `cancelled = true`.
effectCleanup ==
  /\ FrameOf("effect").handler.kind = "effect"
  /\ ~page.cancelled
  /\ page' = [page EXCEPT !.cancelled = TRUE]
  /\ UNCHANGED <<env, pc, call, deepLink, file, clipboardOk, clipboardStatus,
                 fetchedVia, outcome, log, calls, self, handler, parked>>

\* The outcomes of the browser calls the page specifications range over.
PageOutcomes(api) ==
  CASE api = "fetch" ->
         { Throw([typeof |-> "object", name |-> "TypeError"]),
           Return([ok |-> TRUE, body |-> Return([type |-> <<"image/png">>])]) }
    [] api = "canShare" ->
         { Return("true"), Return("false"),
           Throw([typeof |-> "object", name |-> "TypeError"]) }
    [] api = "share" ->
         { Return(Undefined),
           Throw([typeof |-> "object", name |-> "AbortError"]),
           Throw([typeof |-> "object", name |-> "NotAllowedError"]) }
    [] OTHER ->
         { Return(Undefined),
           Throw([typeof |-> "object", name |-> "NotAllowedError"]) }

InPageOutcomes(lg) == \A i \in 1..Len(lg) : lg[i].r \in PageOutcomes(lg[i].api)

\* A step of share.ts made for the handler that is running.
ShareStep ==
  /\ \/ FetchDirect
     \/ FetchOptimizer
     \/ CanShare
     \/ NativeShare
     \/ ClipboardWrite
     \/ OpenDeepLink
  /\ InPageOutcomes(log')

BrowserEnvironments == { e \in Environments : e.hasWindow /\ e.hasNavigator }

\* The page with its effect and one click handler at a time.
InitPage ==
  /\ env \in BrowserEnvironments
  /\ pc = "idle"
  /\ call = [op |-> "none"]
  /\ deepLink = Undefined
  /\ file = NoFile
  /\ clipboardOk = FALSE
  /\ clipboardStatus = "skipped"
  /\ fetchedVia = Undefined
  /\ outcome = Pending
  /\ log = <<>>
  /\ calls = 0
  /\ self = "effect"
  /\ handler = NoHandler
  /\ parked = [t \in Handlers |-> IdleFrame]
  /\ page = NoPage

NextPage ==
  \/ useEffect
  \/ effectPrefetchSettled
  \/ effectCleanup
  \/ onShare
  \/ onShareDirectSettled
  \/ onShareWebShareSettled
  \/ ShareStep
  \/ \E t \in {"effect", "click1"} : Resume(t)

SpecPage == InitPage /\ [][NextPage]_vars

\* Two clicks whose handlers overlap; the prefetch has ended before them,
\* with a file or without.
InitOverlap ==
  /\ env \in BrowserEnvironments
  /\ pc = "idle"
  /\ call = [op |-> "none"]
  /\ deepLink = Undefined
  /\ file = NoFile
  /\ clipboardOk = FALSE
  /\ clipboardStatus = "skipped"
  /\ fetchedVia = Undefined
  /\ outcome = Pending
  /\ log = <<>>
  /\ calls = 0
  /\ self = "click1"
  /\ handler = NoHandler
  /\ parked = [t \in Handlers |-> IdleFrame]
  /\ page \in { [preparedFile |-> f, cancelled |-> FALSE] :
                  f \in { None,
                          Some(fileFromBlob([type |-> <<"image/png">>],
                                            PageFilename, "direct")) } }

NextOverlap ==
  \/ onShare
  \/ onShareDirectSettled
  \/ onShareWebShareSettled
  \/ ShareStep
  \/ \E t \in Clicks : Resume(t)

SpecOverlap == InitOverlap /\ [][NextOverlap]_vars

----------------------------------------------------------------------------
\* Reading the log of an invocation

Entries(api) == { i \in 1..Len(log) : log[i].api = api }

FetchEntries(via) ==
  { i \in Entries("fetch") : log[i].arg = <<via>> }

Threw(i) == log[i].r.t = "throw"

\* The fetch logged at i delivered a blob.
FetchOk(i) ==
  /\ log[i].r.t = "return"
  /\ log[i].r.v.ok
  /\ log[i].r.v.body.t = "return"

NavigationEntries == Entries("location.assign") \cup Entries("window.open")

\* One of the two navigations returned without throwing.
DeepLinkOpened == \E i \in NavigationEntries : ~Threw(i)

Done(op) == pc = "done" /\ call.op = op

----------------------------------------------------------------------------
\* Properties

\* C1 (as stated): for every image payload, if navigator.share is absent
\* the Web-Share strategy returns {ok:false, reason:not_supported} and no
\* fetch is attempted.
C1_NoShareIsNotSupported ==
  (Done("web_share") /\ call.kind = "image" /\ ~env.hasShare)
    => /\ outcome = Fulfilled(Failure("not_supported"))
       /\ Entries("fetch") = {}

\* C1 (amended): for every image payload, if navigator.share is absent the
\* Web-Share strategy returns ok:false without attempting any fetch, with
\* reason not_supported when window and navigator are both defined and
\* reason not_in_browser otherwise.
C1_NoShareFailsWithoutFetch ==
  (Done("web_share") /\ call.kind = "image" /\ ~env.hasShare)
    => /\ outcome = Fulfilled(Failure(
                      IF env.hasWindow /\ env.hasNavigator
                        THEN "not_supported" ELSE "not_in_browser"))
       /\ Entries("fetch") = {}

C1_Witness ==
  /\ Done("web_share") /\ call.kind = "image"
  /\ env.hasWindow /\ env.hasNavigator /\ ~env.hasShare
  /\ outcome = Fulfilled(Failure("not_supported"))

\* C2: the Direct strategy never fails because of the clipboard step alone:
\* whatever the clipboard step did (capability absent, fetch failing on both
\* paths, write throwing, step skipped), the deep link is attempted after
\* it, a failure result comes only from the browser guard or from the deep
\* link not opening, and the result is ok:true if the deep link opened.
C2_ClipboardNeverFatal ==
  Done("direct") =>
    /\ outcome.state = "fulfilled"
    /\ (env.hasWindow /\ env.hasNavigator) =>
         /\ Entries("location.assign") # {}
         /\ \A i \in Entries("fetch") \cup Entries("clipboard.write") :
              \A j \in NavigationEntries : i < j
    /\ ~outcome.value.ok =>
         \/ ~(env.hasWindow /\ env.hasNavigator) /\ log = <<>>
         \/ NavigationEntries # {} /\ ~DeepLinkOpened
    /\ DeepLinkOpened => outcome.value.ok

\* Both fetch paths failed, yet the deep link opened and the result is ok.
C2_Witness ==
  /\ Done("direct")
  /\ \E i \in FetchEntries("direct") : ~FetchOk(i)
  /\ \E i \in FetchEntries("next_image_optimizer") : ~FetchOk(i)
  /\ DeepLinkOpened
  /\ outcome.value.ok
  /\ outcome.value.details.clipboard = "failed"

\* C3: in a browser, whenever both navigation attempts throw,
\* shareImageToInstagramDirect returns {ok:false, reason:not_supported},
\* whatever the clipboard outcome, also when the image was copied.
C3_DeepLinkFailureIsFatal ==
  (Done("direct") /\ env.hasWindow /\ env.hasNavigator /\ ~DeepLinkOpened)
    => outcome = Fulfilled(Failure("not_supported"))

\* The image was copied, both navigations threw.
C3_Witness ==
  /\ Done("direct")
  /\ clipboardStatus = "copied"
  /\ \E i \in Entries("location.assign") : Threw(i)
  /\ \E i \in Entries("window.open") : Threw(i)
  /\ outcome = Fulfilled(Failure("not_supported"))

\* C4: whatever the browser calls do, both strategies settle by returning a
\* ShareResult (a success with one of the three methods, or a failure whose
\* reason is in the closed enumeration); the promise is never rejected.
C4_NothingEscapes ==
  (pc = "done" /\ call.op \in {"web_share", "direct"})
    => /\ outcome.state = "fulfilled"
       /\ outcome.value.provider = "instagram"
       /\ IF outcome.value.ok THEN outcome.value.method \in Methods
          ELSE outcome.value.reason \in Reasons

\* Every browser call of a Direct invocation threw or failed.
C4_Witness ==
  /\ Done("direct")
  /\ Len(log) = 4
  /\ \A i \in 1..Len(log) : IF log[i].api = "fetch" THEN ~FetchOk(i) ELSE Threw(i)
  /\ outcome.state = "fulfilled"

\* C5: when navigator.share rejects, the reason is user_cancelled if and
\* only if the thrown value's name is "AbortError", it is unknown
\* otherwise, and the thrown value is attached as error in both cases.
C5_CancellationMapping ==
  \A i \in Entries("share") :
    (Done("web_share") /\ Threw(i)) =>
      /\ outcome.state = "fulfilled"
      /\ ~outcome.value.ok
      /\ outcome.value.reason =
           IF log[i].r.e.name = "AbortError" THEN "user_cancelled" ELSE "unknown"
      /\ outcome.value.error = log[i].r.e

\* navigator.share rejected with an object that is not an AbortError.
C5_Witness ==
  /\ Done("web_share")
  /\ \E i \in Entries("share") :
       /\ Threw(i)
       /\ log[i].r.e = [typeof |-> "object", name |-> "NotAllowedError"]
  /\ outcome.value.reason = "unknown"

\* C6: the Web-Share strategy returns reason fetch_failed only when both
\* the direct fetch and the optimizer fallback fetch have failed within
\* that invocation.
C6_FetchFailedAfterBothPaths ==
  (Done("web_share") /\ outcome.state = "fulfilled" /\ ~outcome.value.ok
     /\ outcome.value.reason = "fetch_failed")
    => /\ \E i \in FetchEntries("direct") : ~FetchOk(i)
       /\ \E i \in FetchEntries("next_image_optimizer") : ~FetchOk(i)

\* The fetcher of the invocation has finished.
FetcherDone ==
  /\ call.op \in {"prepare", "direct"}
  /\ FetchEntries("direct") # {}
  /\ pc \notin {"fetch_direct", "fetch_optimizer"}

\* What the fetcher handed to its caller is a file tagged via.
FetcherGave(via) ==
  IF call.op = "prepare"
    THEN /\ outcome.state = "fulfilled"
         /\ outcome.value.fetchedVia = via
  ELSE /\ file # NoFile
       /\ file.fetchedVia = via

\* The fetcher failed with its error.
FetcherThrew ==
  IF call.op = "prepare" THEN outcome = Rejected(FetchError)
  ELSE /\ file = NoFile
       /\ clipboardStatus = "failed"
       /\ Entries("clipboard.write") = {}

\* C7: with the optimizer fallback permitted and a window available
\* (prepareShareImageFile, the Direct strategy): a successful direct fetch
\* gives a file tagged direct and the optimizer URL is never requested; a
\* failed direct fetch followed by a successful optimizer fetch gives a file
\* tagged next_image_optimizer; if both fail the fetcher fails.
C7_FetcherPaths ==
  (FetcherDone /\ env.hasWindow) =>
    \A d \in FetchEntries("direct") :
      IF FetchOk(d)
        THEN FetchEntries("next_image_optimizer") = {} /\ FetcherGave("direct")
      ELSE \E o \in FetchEntries("next_image_optimizer") :
             IF FetchOk(o) THEN FetcherGave("next_image_optimizer")
             ELSE FetcherThrew

\* The direct fetch answered with a non-success response, the optimizer
\* fetch delivered.
C7_Witness ==
  /\ Done("prepare")
  /\ \E d \in FetchEntries("direct") : ~Threw(d) /\ ~log[d].r.v.ok
  /\ \E o \in FetchEntries("next_image_optimizer") : FetchOk(o)
  /\ outcome.state = "fulfilled"
  /\ outcome.value.fetchedVia = "next_image_optimizer"

\* C8: in the Web-Share strategy after a successful fetch, a canShare that
\* is present and returns exactly false gives {ok:false,
\* reason:not_supported} and navigator.share is never invoked; a canShare
\* that is absent (never called), returns anything else, or throws, is
\* followed by the invocation of navigator.share.
C8_CanShareGate ==
  (Done("web_share") /\ \E i \in Entries("fetch") : FetchOk(i)) =>
    /\ (Entries("canShare") # {}) <=> env.hasCanShare
    /\ IF \E i \in Entries("canShare") : ~Threw(i) /\ log[i].r.v = "false"
         THEN /\ outcome = Fulfilled(Failure("not_supported"))
              /\ Entries("share") = {}
       ELSE Entries("share") # {}

\* canShare returned undefined and navigator.share was invoked.
C8_Witness ==
  /\ Done("web_share")
  /\ \E i \in Entries("canShare") : ~Threw(i) /\ log[i].r.v = Undefined
  /\ Entries("share") # {}

\* C9: every success result of shareImageToInstagramDirect has method
\* deep_link_clipboard if and only if details.clipboard is "copied",
\* otherwise method deep_link with details.clipboard one of failed,
\* not_supported, skipped; details.deepLinkOpened is true in all of them.
C9_MethodMatchesClipboard ==
  (Done("direct") /\ outcome.state = "fulfilled" /\ outcome.value.ok) =>
    LET v == outcome.value IN
    /\ v.method \in {"deep_link", "deep_link_clipboard"}
    /\ v.details.clipboard \in ClipboardStatuses
    /\ (v.method = "deep_link_clipboard") <=> (v.details.clipboard = "copied")
    /\ v.details.deepLinkOpened = TRUE

\* The write was attempted and failed; the result is a deep_link success.
C9_Witness ==
  /\ Done("direct")
  /\ \E i \in Entries("clipboard.write") : Threw(i)
  /\ outcome.value.ok
  /\ outcome.value.method = "deep_link"
  /\ outcome.value.details.clipboard = "failed"

\* C10: when the clipboard-write capability is absent (no clipboard.write
\* or no ClipboardItem), skipClipboard is false and the deep link opens,
\* shareImageToInstagramDirect returns {ok:true, method:deep_link,
\* details:{clipboard:"not_supported", deepLinkOpened:true}} and performs
\* neither an image fetch nor a clipboard write.
C10_ClipboardUnsupported ==
  (Done("direct") /\ ~(env.hasClipboardWrite /\ env.hasClipboardItem)
     /\ ~call.skipClipboard /\ DeepLinkOpened)
    => /\ outcome =
            Fulfilled([ok |-> TRUE, provider |-> "instagram",
                       method |-> "deep_link",
                       details |-> [clipboard |-> "not_supported",
                                    deepLinkOpened |-> TRUE,
                                    fetchedVia |-> Undefined]])
       /\ Entries("fetch") = {}
       /\ Entries("clipboard.write") = {}

\* clipboard.write exists, ClipboardItem does not, no file was handed in.
C10_Witness ==
  /\ Done("direct")
  /\ env.hasClipboardWrite /\ ~env.hasClipboardItem
  /\ ~call.skipClipboard /\ ~call.file.some
  /\ DeepLinkOpened
  /\ outcome.value.ok
  /\ outcome.value.details.clipboard = "not_supported"

\* The MIME type the clipboard item of a handed-in file must carry.
MimeOfPrepared(f) ==
  IF f.type = <<"image/png">> THEN <<"image/png">> ELSE <<"image/jpeg">>

\* C11: when a pre-fetched file is passed to shareImageToInstagramDirect
\* the invocation performs no fetch at all, and the clipboard write (made
\* whenever the step is not skipped and the capability is present) uses
\* exactly that file; a fetch is issued only when no file was supplied.
C11_PreparedFileNoFetch ==
  (call.op = "direct" /\ call.file.some) =>
    /\ Entries("fetch") = {}
    /\ pc \notin {"fetch_direct", "fetch_optimizer"}
    /\ \A i \in Entries("clipboard.write") :
         /\ file = call.file.v
         /\ log[i].arg = MimeOfPrepared(call.file.v)
    /\ (pc = "done" /\ outcome.value.ok /\ outcome.value.details.clipboard = "copied")
         => outcome.value.details.fetchedVia = call.file.v.fetchedVia
    /\ (pc = "done" /\ ~call.skipClipboard
          /\ env.hasClipboardWrite /\ env.hasClipboardItem)
         => Entries("clipboard.write") # {}

\* A handed-in file named photo.JPEG of type application/octet-stream was
\* written to the clipboard as image/jpeg without any fetch.
C11_Witness ==
  /\ Done("direct")
  /\ call.file.some
  /\ call.file.v.type = <<"application/octet-stream">>
  /\ \E i \in Entries("clipboard.write") :
       ~Threw(i) /\ log[i].arg = <<"image/jpeg">>
  /\ Entries("fetch") = {}

\* s without its leading and trailing blanks, said without recursion.
Stripped(s) ==
  LET ij == CHOOSE p \in (1..Len(s) + 1) \X (0..Len(s)) :
              /\ p[2] >= p[1] - 1
              /\ \A k \in 1..(p[1] - 1) : s[k] = " "
              /\ \A k \in (p[2] + 1)..Len(s) : s[k] = " "
              /\ p[1] <= p[2] => s[p[1]] # " " /\ s[p[2]] # " "
              /\ p[1] > p[2] => p[1] = Len(s) + 1
  IN SubSeq(s, ij[1], ij[2])

\* The extension that belongs to each content type of the model.
ExpectedExtension(ct) ==
  CASE ct \in {<<"image/png">>, <<"IMAGE/PNG">>} -> <<".png">>
    [] ct = <<"image/jpeg", ";", " ", "charset=utf-8">> -> <<".jpg">>
    [] ct = <<"image/webp">> -> <<".webp">>
    [] ct = <<" ", "image/gif", " ">> -> <<".gif">>
    [] OTHER -> <<>>

ExpectedName(filename, ct) ==
  IF filename.some /\ Stripped(filename.v) # <<>> THEN Stripped(filename.v)
  ELSE <<"shared-image">> \o ExpectedExtension(ct)

\* The file the fetcher of the invocation produced from the fetch logged
\* at i.
ProducedFrom(i) ==
  IF call.op = "prepare" THEN outcome.value ELSE file

FetcherReturned ==
  /\ call.op \in {"prepare", "web_share", "direct"}
  /\ pc \notin {"idle", "fetch_direct", "fetch_optimizer"}

\* C12: the name of a fetched file is a function of (supplied filename,
\* content type): the supplied filename without surrounding blanks when
\* that is non-empty, otherwise "shared-image" followed by .png, .jpg,
\* .webp, .gif or nothing according to the content type; it is never
\* empty, and image/png without a filename gives "shared-image.png".
C12_FilenameDerivation ==
  FetcherReturned =>
    \A i \in Entries("fetch") :
      FetchOk(i) =>
        /\ ProducedFrom(i).name =
             ExpectedName(call.filename, log[i].r.v.body.v.type)
        /\ ProducedFrom(i).name # <<>>
        /\ (~call.filename.some /\ log[i].r.v.body.v.type = <<"image/png">>)
             => ProducedFrom(i).name = <<"shared-image", ".png">>

\* A filename with blanks around it was supplied and the file carries it
\* without them.
C12_Witness ==
  /\ Done("prepare")
  /\ call.filename = Some(<<" ", "social-sharing", ".png", " ">>)
  /\ outcome.state = "fulfilled"
  /\ outcome.value.name = <<"social-sharing", ".png">>

\* C13: the deep-link opener attempts location.assign first and window.open
\* only after location.assign threw; it returns false only when both threw
\* and true as soon as one attempt returned, so at most one of the two
\* navigations completes per call.
C13_OpenerOrder ==
  (Done("direct") /\ NavigationEntries # {}) =>
    /\ Cardinality(Entries("location.assign")) = 1
    /\ Cardinality(Entries("window.open")) <= 1
    /\ \A i \in Entries("location.assign") :
         /\ \A j \in Entries("window.open") : i < j
         /\ (Entries("window.open") # {}) <=> Threw(i)
    /\ Cardinality({ i \in NavigationEntries : ~Threw(i) }) <= 1
    /\ (outcome = Fulfilled(Failure("not_supported")))
         <=> (\A i \in NavigationEntries : Threw(i))
    /\ DeepLinkOpened
         => outcome.value.ok /\ outcome.value.details.deepLinkOpened = TRUE

\* location.assign threw, window.open returned.
C13_Witness ==
  /\ Done("direct")
  /\ \E i \in Entries("location.assign") : Threw(i)
  /\ \E i \in Entries("window.open") : ~Threw(i)
  /\ outcome.value.ok

\* C14: nothing is replayed inside one invocation: navigator.share and
\* clipboard.write are invoked at most once, each fetch URL is requested at
\* most once, the deep-link opener of a Direct invocation in a browser is
\* called exactly once; a failed call is never tried again.
C14_NoReplay ==
  /\ Cardinality(Entries("share")) <= 1
  /\ Cardinality(Entries("canShare")) <= 1
  /\ Cardinality(Entries("clipboard.write")) <= 1
  /\ Cardinality(FetchEntries("direct")) <= 1
  /\ Cardinality(FetchEntries("next_image_optimizer")) <= 1
  /\ Cardinality(Entries("location.assign")) <= 1
  /\ Cardinality(Entries("window.open")) <= 1
  /\ (Done("direct") /\ env.hasWindow /\ env.hasNavigator)
       => Cardinality(Entries("location.assign")) = 1
  /\ call.op = "web_share" => Entries("clipboard.write") \cup NavigationEntries = {}
  /\ call.op = "direct" => Entries("share") \cup Entries("canShare") = {}

\* The direct fetch failed and the Web-Share invocation ended there.
C14_Witness ==
  /\ Done("web_share")
  /\ \E i \in FetchEntries("direct") : ~FetchOk(i)
  /\ Len(log) = 1
  /\ outcome.value.reason = "fetch_failed"

----------------------------------------------------------------------------
\* Properties of the page

Range(q) == { q[i] : i \in 1..Len(q) }

\* shareImageToInstagramDirect run alone on the call outcomes of lg, up to
\* the deep link: its locals and the calls it has made.
AloneBeforeDeepLink(e, options, lg) ==
  LET n0 == directEntry(e, options)
      st == fileFromUrlDirect(tryFetchBlob(lg[1].r).v, options.filename,
                              TRUE, e)
      fetched == IF st.step = "fallback"
                   THEN fileFromUrlFallback(tryFetchBlob(lg[2].r).v,
                                            options.filename)
                 ELSE st.c
      k1 == IF n0.pc # "fetch_direct" THEN 0
            ELSE IF st.step = "fallback" THEN 2 ELSE 1
      fetches == IF k1 = 0 THEN <<>>
                 ELSE IF k1 = 1 THEN <<Call("fetch", <<"direct">>, lg[1].r)>>
                 ELSE <<Call("fetch", <<"direct">>, lg[1].r),
                        Call("fetch", <<"next_image_optimizer">>, lg[2].r)>>
      n1 == IF k1 = 0
              THEN [pc |-> n0.pc, file |-> n0.file, clipboardOk |-> FALSE,
                    clipboardStatus |-> n0.clipboardStatus]
            ELSE directAfterPrepare(fetched)
      w == tryWriteImageToClipboard(n1.file, e, lg[k1 + 1].r)
  IN IF n1.pc = "clipboard_write"
       THEN [locals |-> directAfterWrite(w.c, n1.file),
             calls |-> fetches \o w.calls]
     ELSE [locals |-> [clipboardOk |-> n1.clipboardOk,
                       clipboardStatus |-> n1.clipboardStatus,
                       fetchedVia |-> Undefined],
           calls |-> fetches]

\* shareImageToInstagramDirect run alone on the call outcomes of lg: the
\* calls it makes and its promise.
AloneDirect(e, options, lg) ==
  LET n0 == directEntry(e, options)
      b == AloneBeforeDeepLink(e, options, lg)
      k2 == Len(b.calls)
      op == tryOpenDeepLink(n0.deepLink, lg[k2 + 1].r,
                            IF Len(lg) >= k2 + 2 THEN lg[k2 + 2].r
                            ELSE lg[k2 + 1].r)
  IN IF n0.pc = "done" THEN [calls |-> <<>>, outcome |-> n0.outcome]
     ELSE [calls |-> b.calls \o op.calls,
           outcome |-> Settle(directResult(op.c, b.locals.clipboardOk,
                                           b.locals.clipboardStatus,
                                           b.locals.fetchedVia))]

\* shareImageViaWebShare run alone on the call outcomes of lg.
AloneWebShare(e, payload, lg) ==
  LET g == webShareGuards(e, payload)
      st == fileFromUrlDirect(tryFetchBlob(lg[1].r).v, payload.filename,
                              FALSE, e)
      n == webShareAfterFetch(st.c)
      cs == webShareCanShare(e, lg[2].r)
      k == 1 + Len(cs.calls)
  IN IF g.some THEN [calls |-> <<>>, outcome |-> Fulfilled(g.v)]
     ELSE IF n.pc = "done"
       THEN [calls |-> <<Call("fetch", <<"direct">>, lg[1].r)>>,
             outcome |-> n.outcome]
     ELSE IF cs.result.some
       THEN [calls |-> <<Call("fetch", <<"direct">>, lg[1].r)>> \o cs.calls,
             outcome |-> Fulfilled(cs.result.v)]
     ELSE [calls |-> <<Call("fetch", <<"direct">>, lg[1].r)>> \o cs.calls
                       \o <<Call("share", n.file.name, lg[k + 1].r)>>,
           outcome |-> Fulfilled(webShareResult(lg[k + 1].r))]

\* The click handler t went through its attempt as if it had run alone.
AsIfAlone(t) ==
  LET f == FrameOf(t)
      h == f.handler
      options == onShareOptions(h.passed)
      n == IF h.stage = "direct" THEN Len(f.log) ELSE h.directCalls
      lgD == SubSeq(f.log, 1, n)
      lgW == SubSeq(f.log, n + 1, Len(f.log))
  IN
  h.kind = "onShare" =>
    /\ h.passed = page.preparedFile
    /\ (h.stage = "direct" /\ f.pc = "open_deep_link") =>
         /\ AloneBeforeDeepLink(env, options, lgD).calls = lgD
         /\ AloneBeforeDeepLink(env, options, lgD).locals =
              [clipboardOk |-> f.clipboardOk,
               clipboardStatus |-> f.clipboardStatus,
               fetchedVia |-> f.fetchedVia]
    /\ (h.stage = "direct" /\ f.pc = "done") =>
         /\ AloneDirect(env, options, lgD).calls = lgD
         /\ AloneDirect(env, options, lgD).outcome = f.outcome
    /\ h.stage \in {"web_share", "finished"} =>
         /\ AloneDirect(env, options, lgD).calls = lgD
         /\ AloneDirect(env, options, lgD).outcome = h.direct
    /\ (h.stage = "finished" /\ f.call.op = "web_share") =>
         LET payload == [kind |-> "image", filename |-> PageFilename] IN
         /\ AloneWebShare(env, payload, lgW).calls = lgW
         /\ AloneWebShare(env, payload, lgW).outcome = f.outcome

\* C15: however two overlapping share attempts interleave, the file the
\* page prepared stays as it was handed in, and each attempt's calls, locals
\* and result are those of the attempt run alone on its own inputs and on
\* the outcomes of its own browser calls.
C15_AttemptsIndependent == \A t \in Clicks : AsIfAlone(t)

\* Both attempts are in flight before their deep link; one has copied the
\* image, the other has failed to.
C15_Witness ==
  /\ FrameOf("click1").handler.stage = "direct"
  /\ FrameOf("click2").handler.stage = "direct"
  /\ FrameOf("click1").pc = "open_deep_link"
  /\ FrameOf("click2").pc = "open_deep_link"
  /\ FrameOf("click1").clipboardStatus = "copied"
  /\ FrameOf("click2").clipboardStatus = "failed"

\* C16: whenever the direct flow's result is a success whose
\* details.clipboard is "not_supported" (onShare then alerts "We'll try the
\* system share sheet instead"), the handler invokes the Web-Share flow
\* (shareImageToInstagram) within the same click.
C16_AnnouncedFallbackHappens ==
  \A t \in Clicks :
    LET h == FrameOf(t).handler IN
    (h.kind = "onShare" /\ h.stage = "finished"
       /\ "clipboard_unsupported_will_try_share_sheet" \in Range(h.alerts))
      => "shareImageToInstagram" \in Range(h.invoked)

\* The prefetch was rejected.
PrefetchFailed ==
  LET f == FrameOf("effect") IN
  /\ f.handler.kind = "effect"
  /\ f.pc = "done"
  /\ f.outcome.state = "rejected"

\* The click handler t passed no file and its direct flow does its own
\* fetching: it fetches when the clipboard can be written, and writes only
\* a file it has fetched.
FetchesByItself(t) ==
  LET f == FrameOf(t)
      fetches == { i \in 1..Len(f.log) : f.log[i].api = "fetch" }
      writes == { i \in 1..Len(f.log) : f.log[i].api = "clipboard.write" }
  IN
  f.handler.kind = "onShare" =>
    /\ f.handler.passed = None
    /\ (f.handler.stage = "direct"
          /\ env.hasClipboardWrite /\ env.hasClipboardItem)
         => f.pc = "fetch_direct" \/ fetches # {}
    /\ f.handler.stage = "direct" =>
         \A j \in writes : \E i \in fetches : i < j /\ f.file.fetchedVia # Undefined

====
